---- MODULE Spec2Model ----
(***************************************************************************)
(* A model of the financetracker backend: registration and login, the      *)
(* JWT gate in front of the protected routes, and the transaction and      *)
(* budget handlers, in both variants the repository holds: main.rs (the    *)
(* target user id travels in the path or the body and is compared with     *)
(* the token's subject) and handlers.rs (the owner is the token's subject  *)
(* alone).                                                                 *)
(*                                                                         *)
(* Strings that the code converts are modelled by what the conversion      *)
(* does: a UUID's string form is <<"uuid", id>>, any other subject string  *)
(* does not parse; an HS256 signature is the triple of key, subject and    *)
(* expiry it was computed over; an argon2 hash is the salt with the digest *)
(* of password and salt.                                                   *)
(***************************************************************************)
EXTENDS Integers, Sequences, FiniteSets, TLC

VARIABLES
    users,      \* rows of the users table, in insertion order
    txns,       \* rows of the transactions table, in insertion order
    budgets,    \* rows of the budgets table (a set: unique per user, month, category)
    now,        \* the server clock, unix seconds
    held,       \* what the last successful login handed to its client
    last        \* the most recent request and the response it got

vars == <<users, txns, budgets, now, held, last>>

---------------------------------------------------------------------------
(* Bounds *)

MaxTxns == 1

(* Input alphabets *)

Names == {"x", "y"}
Passwords == {"p", "q"}
Salts == {"s1"}
\* The instants at which the clock is read: around a token's expiry.
Instants == <<0, 86399, 86400, 86460, 86461>>

---------------------------------------------------------------------------
(* models.rs *)

JWT_EXPIRATION_HOURS == 24

\* jsonwebtoken's Validation::new(alg) leaves leeway at the library default.
Leeway == 60

\* AppState.jwt_secret, and a key that is not the server's.
JwtSecret == "server-secret"
OtherSecret == "other-secret"

None == [none |-> TRUE]

---------------------------------------------------------------------------
(* uuid *)

\* Uuid::to_string
UuidToString(id) == <<"uuid", id>>

\* A subject string that is no UUID.
NotAUuid == <<"text", 0>>

\* Uuid::parse_str
UuidParseStr(s) ==
    IF s[1] = "uuid" THEN [ok |-> TRUE, value |-> s[2]]
    ELSE [ok |-> FALSE, err |-> "invalid character"]

---------------------------------------------------------------------------
(* argon2 *)

\* Argon2::default().hash_password(password, salt).to_string()
HashPassword(password, salt) ==
    [alg |-> "argon2id", salt |-> salt, digest |-> <<password, salt>>]

\* argon2::PasswordHash::new(stored)
PasswordHashNew(stored) ==
    IF stored.alg = "argon2id" THEN [ok |-> TRUE, value |-> stored]
    ELSE [ok |-> FALSE, err |-> "password hash string invalid"]

\* A verification that accepts any password.
VerifyPasswordAny(password, parsed) == parsed.digest = parsed.digest

\* Argon2::default().verify_password(password, parsed_hash)
VerifyPassword(password, parsed) ==
    HashPassword(password, parsed.salt).digest = parsed.digest

---------------------------------------------------------------------------
(* jsonwebtoken *)

\* The HS256 signature of the claims under a key.
HS256(key, sub, exp) == <<key, sub, exp>>

\* jsonwebtoken::encode(&header, &claims, &encoding_key)
Encode(claims, key) ==
    [sub |-> claims.sub, exp |-> claims.exp, sig |-> HS256(key, claims.sub, claims.exp)]

\* jsonwebtoken::decode::<Claims>(token, &decoding_key, &validation) at time t:
\* the signature first, then exp against the clock less the leeway.
Decode(token, key, t) ==
    IF token.sig # HS256(key, token.sub, token.exp)
    THEN [ok |-> FALSE, err |-> "InvalidSignature"]
    ELSE IF token.exp < t - Leeway
    THEN [ok |-> FALSE, err |-> "ExpiredSignature"]
    ELSE [ok |-> TRUE, claims |-> [sub |-> token.sub, exp |-> token.exp]]

\* verify_jwt decoding with a key that is not the one login signs with.
verify_jwt_other_key(token, secret, t) ==
    LET token_data == Decode(token, OtherSecret, t) IN
    IF ~token_data.ok THEN [ok |-> FALSE, err |-> token_data.err]
    ELSE LET user_id == UuidParseStr(token_data.claims.sub) IN
         IF ~user_id.ok THEN [ok |-> FALSE, err |-> user_id.err]
         ELSE [ok |-> TRUE, user_id |-> user_id.value, exp |-> token_data.claims.exp]

\* auth.rs verify_jwt
verify_jwt(token, secret, t) ==
    LET token_data == Decode(token, secret, t) IN
    IF ~token_data.ok THEN [ok |-> FALSE, err |-> token_data.err]
    ELSE LET user_id == UuidParseStr(token_data.claims.sub) IN
         IF ~user_id.ok THEN [ok |-> FALSE, err |-> user_id.err]
         ELSE [ok |-> TRUE, user_id |-> user_id.value, exp |-> token_data.claims.exp]

---------------------------------------------------------------------------
(* The Authorization header of a request *)

\* No header at all.
NoHeader == [kind |-> "absent"]
\* A header whose bytes are not visible ASCII: HeaderValue::to_str fails.
OpaqueHeader == [kind |-> "opaque"]
\* A header that reads as text: a prefix and what follows it.
TextHeader(prefix, token) == [kind |-> "text", prefix |-> prefix, token |-> token]

\* The extractor admitting only the token of the latest login: a server that
\* keeps a record of what it issued.
from_request_parts_latest_only(header, t) ==
    IF header.kind # "text"
    THEN [ok |-> FALSE, status |-> 401, msg |-> "Missing Authorization header",
          invoked |-> FALSE, err |-> "none"]
    ELSE IF header.prefix # "Bearer "
    THEN [ok |-> FALSE, status |-> 401,
          msg |-> "Invalid Authorization format, expected: Bearer <token>",
          invoked |-> FALSE, err |-> "none"]
    ELSE LET v == verify_jwt(header.token, JwtSecret, t) IN
         IF ~v.ok \/ held = None \/ (held # None /\ held.token # header.token)
         THEN [ok |-> FALSE, status |-> 401, msg |-> "Invalid or expired token",
               invoked |-> TRUE, err |-> IF v.ok THEN "revoked" ELSE v.err]
         ELSE [ok |-> TRUE, user_id |-> v.user_id, invoked |-> TRUE, err |-> "none"]

\* The extractor handing the verification error to the client as the message.
from_request_parts_leaks(header, t) ==
    IF header.kind # "text"
    THEN [ok |-> FALSE, status |-> 401, msg |-> "Missing Authorization header",
          invoked |-> FALSE, err |-> "none"]
    ELSE IF header.prefix # "Bearer "
    THEN [ok |-> FALSE, status |-> 401,
          msg |-> "Invalid Authorization format, expected: Bearer <token>",
          invoked |-> FALSE, err |-> "none"]
    ELSE LET v == verify_jwt(header.token, JwtSecret, t) IN
         IF ~v.ok
         THEN [ok |-> FALSE, status |-> 401, msg |-> v.err,
               invoked |-> TRUE, err |-> v.err]
         ELSE [ok |-> TRUE, user_id |-> v.user_id, invoked |-> TRUE, err |-> "none"]

\* The extractor reading a header it cannot get as text as an empty bearer
\* token, which it hands to verify_jwt.
from_request_parts_verifies_absent(header, t) ==
    IF header.kind # "text"
    THEN [ok |-> FALSE, status |-> 401, msg |-> "Invalid or expired token",
          invoked |-> TRUE, err |-> "InvalidToken"]
    ELSE IF header.prefix # "Bearer "
    THEN [ok |-> FALSE, status |-> 401,
          msg |-> "Invalid Authorization format, expected: Bearer <token>",
          invoked |-> FALSE, err |-> "none"]
    ELSE LET v == verify_jwt(header.token, JwtSecret, t) IN
         IF ~v.ok
         THEN [ok |-> FALSE, status |-> 401, msg |-> "Invalid or expired token",
               invoked |-> TRUE, err |-> v.err]
         ELSE [ok |-> TRUE, user_id |-> v.user_id, invoked |-> TRUE, err |-> "none"]

\* auth.rs from_request_parts: the AuthenticatedUser extractor.
\* invoked tells whether verify_jwt ran; err is the verification error the
\* closure drops. Neither reaches a response.
from_request_parts(header, t) ==
    IF header.kind # "text"
    THEN [ok |-> FALSE, status |-> 401, msg |-> "Missing Authorization header",
          invoked |-> FALSE, err |-> "none"]
    ELSE IF header.prefix # "Bearer "
    THEN [ok |-> FALSE, status |-> 401,
          msg |-> "Invalid Authorization format, expected: Bearer <token>",
          invoked |-> FALSE, err |-> "none"]
    ELSE LET v == verify_jwt(header.token, JwtSecret, t) IN
         IF ~v.ok
         THEN [ok |-> FALSE, status |-> 401, msg |-> "Invalid or expired token",
               invoked |-> TRUE, err |-> v.err]
         ELSE [ok |-> TRUE, user_id |-> v.user_id, invoked |-> TRUE, err |-> "none"]

\* Which state of the gate a request ended in.
GateState(g) ==
    IF g.ok THEN "Verified"
    ELSE IF g.invoked THEN "Unauthorized"
    ELSE IF g.msg = "Missing Authorization header" THEN "NoHeader"
    ELSE "MalformedHeader"

\* The routes without the extractor (register, login) pass no gate.
NoGate == [ok |-> FALSE, status |-> 0, msg |-> "", invoked |-> FALSE, err |-> "none"]

---------------------------------------------------------------------------
(* The record of the most recent exchange *)

\* op: the handler; req: what the client sent; db: whether the store answered
\* the handler's query (TRUE when it issued none);
\* gate, invoked, err: how the extractor ended; auth: the identity it verified
\* (0: none); owner: the user id bound to the handler's query (0: no query was
\* issued); status, msg, body: the response.
Exchange(op, req, db, g, owner, status, msg, body) ==
    [op |-> op, req |-> req, db |-> db, at |-> now,
     gate |-> IF g = NoGate THEN "n/a" ELSE GateState(g),
     invoked |-> g.invoked, err |-> g.err,
     auth |-> IF g.ok THEN g.user_id ELSE 0,
     owner |-> owner, status |-> status, msg |-> msg, body |-> body]

\* The extractor's rejection, returned before the handler body runs.
Rejection(op, req, g) == Exchange(op, req, TRUE, g, 0, g.status, g.msg, <<>>)

---------------------------------------------------------------------------
(* The users table *)

\* SELECT id, password_hash FROM users WHERE username = $1 OR email = $2
UsersMatching(identifier) ==
    {i \in 1..Len(users) :
        users[i].username = identifier \/ users[i].email = identifier}

\* The users table keys a row by its username and by its email: an INSERT
\* that repeats either is refused.
UsersConflict(username, email) ==
    \E i \in 1..Len(users) :
        users[i].username = username \/ users[i].email = email

\* The users table gives a new row an id no other row has.
InsertUser(U, username, email, password_hash) ==
    Append(U, [id |-> Len(U) + 1, username |-> username,
               email |-> email, password_hash |-> password_hash])

\* handlers.rs register_user
register_user(username, email, password, salt, db) ==
    LET password_hash == HashPassword(password, salt)
        req == [username |-> username, email |-> email, password |-> password]
    IN
    /\ IF ~db \/ UsersConflict(username, email)
       THEN /\ last' = Exchange("register_user", req, db, NoGate, 0, 500, "db error", <<>>)
            /\ UNCHANGED users
       ELSE /\ users' = InsertUser(users, username, email, password_hash)
            /\ last' = Exchange("register_user", req, db, NoGate, 0, 201, "", <<>>)
    /\ UNCHANGED <<txns, budgets, now, held>>

\* The token with the hours taken for minutes.
IssueTokenMinutes(id, t) ==
    LET exp == t + (JWT_EXPIRATION_HOURS * 60)
        claims == [sub |-> UuidToString(id), exp |-> exp]
    IN Encode(claims, JwtSecret)

\* The claims and the token user_login builds for a verified user.
IssueToken(id, t) ==
    LET exp == t + (JWT_EXPIRATION_HOURS * 3600)
        claims == [sub |-> UuidToString(id), exp |-> exp]
    IN Encode(claims, JwtSecret)

\* handlers.rs user_login, once fetch_one has answered with row i (0: the
\* query failed or matched no row).
LoginWith(identifier, password, db, i) ==
    LET req == [identifier |-> identifier, password |-> password] IN
    IF i = 0
    THEN /\ last' = Exchange("user_login", req, db, NoGate, 0, 401,
                             "Invalid username/email or password", <<>>)
         /\ UNCHANGED held
    ELSE LET user_record == users[i]
             parsed_hash == PasswordHashNew(user_record.password_hash)
         IN
         IF ~parsed_hash.ok
         THEN /\ last' = Exchange("user_login", req, db, NoGate, 0, 500, parsed_hash.err, <<>>)
              /\ UNCHANGED held
         ELSE IF ~VerifyPassword(password, parsed_hash.value)
         THEN /\ last' = Exchange("user_login", req, db, NoGate, 0, 401,
                                  "Invalid username/email or password", <<>>)
              /\ UNCHANGED held
         ELSE LET token == IssueToken(user_record.id, now)
                  response == [user_id |-> user_record.id, access_token |-> token]
              IN /\ last' = Exchange("user_login", req, db, NoGate, 0, 200, "", response)
                 /\ held' = [user_id |-> user_record.id, token |-> token, at |-> now]

\* handlers.rs user_login: fetch_one returns one of the rows that match.
user_login(identifier, password, db) ==
    /\ IF ~db \/ UsersMatching(identifier) = {}
       THEN LoginWith(identifier, password, db, 0)
       ELSE \E i \in UsersMatching(identifier) : LoginWith(identifier, password, db, i)
    /\ UNCHANGED <<users, txns, budgets, now>>

\* The clock moves on to a later instant.
Tick ==
    /\ \E k \in 1..Len(Instants) : Instants[k] > now /\ now' = Instants[k]
    /\ UNCHANGED <<users, txns, budgets, held, last>>

---------------------------------------------------------------------------
(* Dates, options and SQL values *)

\* Option<T>: None is the empty sequence, Some(v) is <<v>>. A NULL column is None.
Some(v) == <<v>>
Null == <<>>

\* SQL's a = b: never true when either side is NULL.
SqlEq(a, b) == a # Null /\ b # Null /\ a = b

\* chrono::NaiveDate as <<year, month, day>>, and its order.
DateLt(a, b) ==
    \/ a[1] < b[1]
    \/ a[1] = b[1] /\ a[2] < b[2]
    \/ a[1] = b[1] /\ a[2] = b[2] /\ a[3] < b[3]

DateLe(a, b) == a = b \/ DateLt(a, b)

\* chrono::Utc::now().date_naive(), for the clock's first month.
DateNaive(t) == <<1970, 1, 1 + (t \div 86400)>>

\* The category strings in use, in the order text sorts them.
CategoryOrder == <<"food", "rent">>

CategoryRank(c) == CHOOSE k \in 1..Len(CategoryOrder) : CategoryOrder[k] = c

\* TransactionKind -> the stored string (add_transaction's match)
KindToString(kind) == IF kind = "Income" THEN "income" ELSE "expense"

\* the stored string -> TransactionKind (get_transactions' match); anything
\* else panics.
KindFromString(str) ==
    IF str = "income" THEN [ok |-> TRUE, value |-> "Income"]
    ELSE IF str = "expense" THEN [ok |-> TRUE, value |-> "Expense"]
    ELSE [ok |-> FALSE]

---------------------------------------------------------------------------
(* The queries, over tables T (transactions) and B (budgets) *)

\* INSERT into transactions (user_id, amount, kind, category, date, description)
InsertTransaction(T, user_id, amount, kind, category, date, description) ==
    Append(T, [user_id |-> user_id, amount |-> amount, kind |-> kind,
               category |-> category, date |-> date, description |-> description])

\* SELECT amount, kind, category, date, description FROM transactions
\* WHERE user_id = $1
SelectTransactions(T, user_id) ==
    SelectSeq(T, LAMBDA r : r.user_id = user_id)

\* DO UPDATE SET amount = budgets.amount + EXCLUDED.amount: the conflicting
\* row's amount grown by the amount sent.
UpsertBudgetAccumulate(B, user_id, month, category, amount, t) ==
    LET conflict == {b \in B : b.user_id = user_id /\ b.month = month
                                /\ b.category = category}
        held_amount == IF conflict = {} THEN 0 ELSE (CHOOSE b \in conflict : TRUE).amount
    IN (B \ conflict) \cup
       {[user_id |-> user_id, month |-> month, category |-> category,
         amount |-> held_amount + amount, updated_at |-> t]}

\* DO UPDATE that also matches rows of the same month and category of other
\* users: the conflict keyed without user_id.
UpsertBudgetAnyUser(B, user_id, month, category, amount, t) ==
    LET conflict == {b \in B : b.month = month /\ b.category = category}
    IN (B \ conflict) \cup
       {[user_id |-> user_id, month |-> month, category |-> category,
         amount |-> amount, updated_at |-> t]}

\* A plain INSERT, without the ON CONFLICT clause.
UpsertBudgetInsertOnly(B, user_id, month, category, amount, t) ==
    B \cup {[user_id |-> user_id, month |-> month, category |-> category,
             amount |-> amount, updated_at |-> t]}

\* INSERT INTO budgets ... ON CONFLICT (user_id, month, category)
\* DO UPDATE SET amount = EXCLUDED.amount, updated_at = CURRENT_TIMESTAMP
UpsertBudget(B, user_id, month, category, amount, t) ==
    LET conflict == {b \in B : b.user_id = user_id /\ b.month = month
                                /\ b.category = category}
    IN (B \ conflict) \cup
       {[user_id |-> user_id, month |-> month, category |-> category,
         amount |-> amount, updated_at |-> t]}

\* The rows in descending order of category.
RECURSIVE OrderByCategoryDesc(_)
OrderByCategoryDesc(S) ==
    IF S = {} THEN <<>>
    ELSE LET first == CHOOSE r \in S :
                 \A o \in S : CategoryRank(r.category) >= CategoryRank(o.category)
         IN <<first>> \o OrderByCategoryDesc(S \ {first})

\* ORDER BY category ASC, over rows of one month
RECURSIVE OrderByCategory(_)
OrderByCategory(S) ==
    IF S = {} THEN <<>>
    ELSE LET first == CHOOSE r \in S :
                 \A o \in S : CategoryRank(r.category) <= CategoryRank(o.category)
         IN <<first>> \o OrderByCategory(S \ {first})

\* ORDER BY month DESC, category ASC
RECURSIVE OrderByMonthDescCategory(_)
OrderByMonthDescCategory(S) ==
    IF S = {} THEN <<>>
    ELSE LET first == CHOOSE r \in S : \A o \in S :
                 \/ DateLt(o.month, r.month)
                 \/ o.month = r.month
                    /\ CategoryRank(r.category) <= CategoryRank(o.category)
         IN <<first>> \o OrderByMonthDescCategory(S \ {first})

\* SELECT month, category, amount FROM budgets WHERE user_id = $1 AND month = $2
\* ORDER BY category ASC
SelectBudgetsOfMonth(B, user_id, month) ==
    OrderByCategory({[month |-> b.month, category |-> b.category, amount |-> b.amount] :
                     b \in {x \in B : x.user_id = user_id /\ x.month = month}})

\* SELECT month, category, amount FROM budgets WHERE user_id = $1
\* ORDER BY month DESC, category ASC
SelectBudgets(B, user_id) ==
    OrderByMonthDescCategory(
        {[month |-> b.month, category |-> b.category, amount |-> b.amount] :
         b \in {x \in B : x.user_id = user_id}})

RECURSIVE SumAmount(_)
SumAmount(rows) ==
    IF rows = <<>> THEN 0 ELSE Head(rows).amount + SumAmount(Tail(rows))

\* The ON clause without t.category = b.category.
JoinOnAnyCategory(b, t, window_start, window_end) ==
    /\ t.user_id = b.user_id
    /\ t.kind = "expense"
    /\ DateLe(window_start, t.date)
    /\ DateLt(t.date, window_end)

\* The ON clause without t.kind = 'expense'.
JoinOnAnyKind(b, t, window_start, window_end) ==
    /\ t.user_id = b.user_id
    /\ SqlEq(t.category, Some(b.category))
    /\ DateLe(window_start, t.date)
    /\ DateLt(t.date, window_end)

\* The ON clause without t.user_id = b.user_id.
JoinOnAnyUser(b, t, window_start, window_end) ==
    /\ t.kind = "expense"
    /\ SqlEq(t.category, Some(b.category))
    /\ DateLe(window_start, t.date)
    /\ DateLt(t.date, window_end)

\* The LEFT JOIN's ON clause for budget row b and transaction row t.
JoinOn(b, t, window_start, window_end) ==
    /\ t.user_id = b.user_id
    /\ t.kind = "expense"
    /\ SqlEq(t.category, Some(b.category))
    /\ DateLe(window_start, t.date)
    /\ DateLt(t.date, window_end)

\* The query with JOIN for LEFT JOIN: a budget row no transaction joins is
\* dropped.
SelectProgressInnerJoin(B, T, user_id, month_start, next_month_start) ==
    OrderByCategory(
        {[category |-> b.category, budget_amount |-> b.amount,
          spent |-> SumAmount(SelectSeq(T, LAMBDA t :
                        JoinOn(b, t, month_start, next_month_start)))] :
         b \in {x \in B : /\ x.user_id = user_id
                          /\ x.month = month_start
                          /\ \E k \in 1..Len(T) :
                                JoinOn(x, T[k], month_start, next_month_start)}})

\* SELECT b.category, b.amount, COALESCE(SUM(t.amount), 0) FROM budgets b
\* LEFT JOIN transactions t ON ... WHERE b.user_id = $1 AND b.month = $2
\* GROUP BY b.category, b.amount ORDER BY b.category ASC
SelectProgress(B, T, user_id, month_start, next_month_start) ==
    OrderByCategory(
        {[category |-> b.category, budget_amount |-> b.amount,
          spent |-> SumAmount(SelectSeq(T, LAMBDA t :
                        JoinOn(b, t, month_start, next_month_start)))] :
         b \in {x \in B : x.user_id = user_id /\ x.month = month_start}})

---------------------------------------------------------------------------
(* Response bodies *)

\* get_transactions' map over the fetched rows; a row of unknown kind panics.
TransactionsBody(rows, user_id) ==
    IF \E k \in 1..Len(rows) : ~KindFromString(rows[k].kind).ok
    THEN [ok |-> FALSE]
    ELSE [ok |-> TRUE,
          value |-> [k \in 1..Len(rows) |->
              [user_id |-> user_id, amount |-> rows[k].amount,
               kind |-> KindFromString(rows[k].kind).value,
               category |-> rows[k].category, date |-> rows[k].date,
               description |-> rows[k].description]]]

\* get_budgets' map over the fetched rows.
BudgetsBody(rows, user_id) ==
    [k \in 1..Len(rows) |->
        [user_id |-> user_id, month |-> rows[k].month,
         category |-> rows[k].category, amount |-> rows[k].amount]]

\* The map with remaining floored at zero.
ProgressBodyClamped(rows) ==
    [k \in 1..Len(rows) |->
        LET remaining == IF rows[k].budget_amount < rows[k].spent THEN 0
                         ELSE rows[k].budget_amount - rows[k].spent IN
        [category |-> rows[k].category, budget_amount |-> rows[k].budget_amount,
         spent |-> rows[k].spent, remaining |-> remaining]]

\* get_budget_progress' map over the fetched rows.
ProgressBody(rows) ==
    [k \in 1..Len(rows) |->
        LET remaining == rows[k].budget_amount - rows[k].spent IN
        [category |-> rows[k].category, budget_amount |-> rows[k].budget_amount,
         spent |-> rows[k].spent, remaining |-> remaining]]

\* The start of the window moved back to the first day of the month asked for.
MonthStartOfMonth(month, t) ==
    IF month # Null THEN <<month[1][1], month[1][2], 1>>
    ELSE LET today == DateNaive(t) IN <<today[1], today[2], 1>>

\* get_budget_progress: the month asked for, or the current month's first day.
MonthStart(month, t) ==
    IF month # Null THEN month[1]
    ELSE LET today == DateNaive(t) IN <<today[1], today[2], 1>>

\* The end of the window with the month incremented and no rollover.
NextMonthStartNoRollover(month_start) ==
    <<month_start[1], month_start[2] + 1, 1>>

\* get_budget_progress: the exclusive end of the window.
NextMonthStart(month_start) ==
    LET nynm == IF month_start[2] = 12
                THEN <<month_start[1] + 1, 1>>
                ELSE <<month_start[1], month_start[2] + 1>>
    IN <<nynm[1], nynm[2], 1>>

\* What the three reads answer for owner user_id, given the tables.
GetTransactionsAnswer(T, user_id) ==
    TransactionsBody(SelectTransactions(T, user_id), user_id)

GetBudgetsAnswer(B, user_id, month) ==
    IF month # Null
    THEN BudgetsBody(SelectBudgetsOfMonth(B, user_id, month[1]), user_id)
    ELSE BudgetsBody(SelectBudgets(B, user_id), user_id)

GetBudgetProgressAnswer(B, T, user_id, month, t) ==
    LET month_start == MonthStart(month, t)
        next_month_start == NextMonthStart(month_start)
    IN ProgressBody(SelectProgress(B, T, user_id, month_start, next_month_start))

---------------------------------------------------------------------------
(* Handler bodies shared by the two variants, run for owner user_id *)

InsertTransactionFor(op, req, db, g, user_id) ==
    LET transaction_type == KindToString(req.kind) IN
    IF ~db
    THEN /\ last' = Exchange(op, req, db, g, user_id, 500, "db error", <<>>)
         /\ UNCHANGED txns
    ELSE /\ txns' = InsertTransaction(txns, user_id, req.amount, transaction_type,
                                      req.category, req.date, req.description)
         /\ last' = Exchange(op, req, db, g, user_id, 201, "", <<>>)

FetchTransactionsFor(op, req, db, g, user_id) ==
    IF ~db
    THEN last' = Exchange(op, req, db, g, user_id, 500, "db error", <<>>)
    ELSE LET result == GetTransactionsAnswer(txns, user_id) IN
         IF ~result.ok
         THEN last' = Exchange(op, req, db, g, user_id, 0,
                               "panic: Invalid transaction kind in database", <<>>)
         ELSE last' = Exchange(op, req, db, g, user_id, 200, "", result.value)

UpsertBudgetFor(op, req, db, g, user_id) ==
    IF ~db
    THEN /\ last' = Exchange(op, req, db, g, user_id, 500, "db error", <<>>)
         /\ UNCHANGED budgets
    ELSE /\ budgets' = UpsertBudget(budgets, user_id, req.month, req.category,
                                    req.amount, now)
         /\ last' = Exchange(op, req, db, g, user_id, 201, "", <<>>)

FetchBudgetsFor(op, req, db, g, user_id) ==
    IF ~db
    THEN last' = Exchange(op, req, db, g, user_id, 500, "db error", <<>>)
    ELSE last' = Exchange(op, req, db, g, user_id, 200, "",
                          GetBudgetsAnswer(budgets, user_id, req.month))

FetchProgressFor(op, req, db, g, user_id) ==
    IF ~db
    THEN last' = Exchange(op, req, db, g, user_id, 500, "db error", <<>>)
    ELSE last' = Exchange(op, req, db, g, user_id, 200, "",
                          GetBudgetProgressAnswer(budgets, txns, user_id, req.month, now))

\* main.rs: the 401 of a supplied user id that is not the token's.
Mismatch(op, req, g, msg) == Exchange(op, req, TRUE, g, 0, 401, msg, <<>>)

---------------------------------------------------------------------------
(* main.rs: the target user id comes with the request *)

\* main_add_transaction with the INSERT run before the comparison of the
\* body's id and the token's.
main_add_transaction_late_check(req, db) ==
    LET g == from_request_parts(req.header, now) IN
    /\ Len(txns) < MaxTxns
    /\ IF ~g.ok
       THEN last' = Rejection("main_add_transaction", req, g) /\ UNCHANGED txns
       ELSE IF req.user_id # g.user_id
       THEN /\ last' = Mismatch("main_add_transaction", req, g,
                 "User ID in transaction does not match authenticated user")
            /\ txns' = InsertTransaction(txns, req.user_id, req.amount,
                            KindToString(req.kind), req.category, req.date,
                            req.description)
       ELSE InsertTransactionFor("main_add_transaction", req, db, g, req.user_id)
    /\ UNCHANGED <<users, budgets, now, held>>

\* main.rs add_transaction; req.user_id is the body's user_id
main_add_transaction(req, db) ==
    LET g == from_request_parts(req.header, now) IN
    /\ Len(txns) < MaxTxns
    /\ IF ~g.ok
       THEN last' = Rejection("main_add_transaction", req, g) /\ UNCHANGED txns
       ELSE IF req.user_id # g.user_id
       THEN /\ last' = Mismatch("main_add_transaction", req, g,
                 "User ID in transaction does not match authenticated user")
            /\ UNCHANGED txns
       ELSE InsertTransactionFor("main_add_transaction", req, db, g, req.user_id)
    /\ UNCHANGED <<users, budgets, now, held>>

\* main.rs get_transactions; req.user_id is the path's user_id
main_get_transactions(req, db) ==
    LET g == from_request_parts(req.header, now) IN
    /\ IF ~g.ok
       THEN last' = Rejection("main_get_transactions", req, g)
       ELSE IF req.user_id # g.user_id
       THEN last' = Mismatch("main_get_transactions", req, g,
                "User ID in path does not match authenticated user")
       ELSE FetchTransactionsFor("main_get_transactions", req, db, g, req.user_id)
    /\ UNCHANGED <<users, txns, budgets, now, held>>

\* main_upsert_budget with the comparison of the body's id and the token's left out.
main_upsert_budget_unchecked(req, db) ==
    LET g == from_request_parts(req.header, now) IN
    /\ IF ~g.ok
       THEN last' = Rejection("main_upsert_budget", req, g) /\ UNCHANGED budgets
       ELSE UpsertBudgetFor("main_upsert_budget", req, db, g, req.user_id)
    /\ UNCHANGED <<users, txns, now, held>>

\* main.rs upsert_budget; req.user_id is the body's user_id
main_upsert_budget(req, db) ==
    LET g == from_request_parts(req.header, now) IN
    /\ IF ~g.ok
       THEN last' = Rejection("main_upsert_budget", req, g) /\ UNCHANGED budgets
       ELSE IF req.user_id # g.user_id
       THEN /\ last' = Mismatch("main_upsert_budget", req, g,
                 "User ID in budget does not match authenticated user")
            /\ UNCHANGED budgets
       ELSE UpsertBudgetFor("main_upsert_budget", req, db, g, req.user_id)
    /\ UNCHANGED <<users, txns, now, held>>

\* main_get_budgets with the comparison of the path's id and the token's left out.
main_get_budgets_unchecked(req, db) ==
    LET g == from_request_parts(req.header, now) IN
    /\ IF ~g.ok
       THEN last' = Rejection("main_get_budgets", req, g)
       ELSE FetchBudgetsFor("main_get_budgets", req, db, g, req.user_id)
    /\ UNCHANGED <<users, txns, budgets, now, held>>

\* main.rs get_budgets; req.user_id is the path's user_id
main_get_budgets(req, db) ==
    LET g == from_request_parts(req.header, now) IN
    /\ IF ~g.ok
       THEN last' = Rejection("main_get_budgets", req, g)
       ELSE IF req.user_id # g.user_id
       THEN last' = Mismatch("main_get_budgets", req, g,
                "User ID in path does not match authenticated user")
       ELSE FetchBudgetsFor("main_get_budgets", req, db, g, req.user_id)
    /\ UNCHANGED <<users, txns, budgets, now, held>>

\* main_get_budget_progress without the ?month= parameter: always the month
\* of the clock.
main_get_budget_progress_current_month(req, db) ==
    LET g == from_request_parts(req.header, now) IN
    /\ IF ~g.ok
       THEN last' = Rejection("main_get_budget_progress", req, g)
       ELSE IF req.user_id # g.user_id
       THEN last' = Mismatch("main_get_budget_progress", req, g,
                "User ID in path does not match authenticated user")
       ELSE last' = Exchange("main_get_budget_progress", req, db, g, req.user_id, 200, "",
                        GetBudgetProgressAnswer(budgets, txns, req.user_id, Null, now))
    /\ UNCHANGED <<users, txns, budgets, now, held>>

\* main.rs get_budget_progress; req.user_id is the path's user_id
main_get_budget_progress(req, db) ==
    LET g == from_request_parts(req.header, now) IN
    /\ IF ~g.ok
       THEN last' = Rejection("main_get_budget_progress", req, g)
       ELSE IF req.user_id # g.user_id
       THEN last' = Mismatch("main_get_budget_progress", req, g,
                "User ID in path does not match authenticated user")
       ELSE FetchProgressFor("main_get_budget_progress", req, db, g, req.user_id)
    /\ UNCHANGED <<users, txns, budgets, now, held>>

---------------------------------------------------------------------------
(* handlers.rs: the owner is the token's subject *)

\* handlers.rs add_transaction
add_transaction(req, db) ==
    LET auth == from_request_parts(req.header, now) IN
    /\ Len(txns) < MaxTxns
    /\ IF ~auth.ok
       THEN last' = Rejection("add_transaction", req, auth) /\ UNCHANGED txns
       ELSE InsertTransactionFor("add_transaction", req, db, auth, auth.user_id)
    /\ UNCHANGED <<users, budgets, now, held>>

\* handlers.rs get_transactions
get_transactions(req, db) ==
    LET auth == from_request_parts(req.header, now) IN
    /\ IF ~auth.ok
       THEN last' = Rejection("get_transactions", req, auth)
       ELSE FetchTransactionsFor("get_transactions", req, db, auth, auth.user_id)
    /\ UNCHANGED <<users, txns, budgets, now, held>>

\* handlers.rs upsert_budget
upsert_budget(req, db) ==
    LET auth == from_request_parts(req.header, now) IN
    /\ IF ~auth.ok
       THEN last' = Rejection("upsert_budget", req, auth) /\ UNCHANGED budgets
       ELSE UpsertBudgetFor("upsert_budget", req, db, auth, auth.user_id)
    /\ UNCHANGED <<users, txns, now, held>>

\* handlers.rs get_budgets
get_budgets(req, db) ==
    LET auth == from_request_parts(req.header, now) IN
    /\ IF ~auth.ok
       THEN last' = Rejection("get_budgets", req, auth)
       ELSE FetchBudgetsFor("get_budgets", req, db, auth, auth.user_id)
    /\ UNCHANGED <<users, txns, budgets, now, held>>

\* handlers.rs get_budget_progress
get_budget_progress(req, db) ==
    LET auth == from_request_parts(req.header, now) IN
    /\ IF ~auth.ok
       THEN last' = Rejection("get_budget_progress", req, auth)
       ELSE FetchProgressFor("get_budget_progress", req, db, auth, auth.user_id)
    /\ UNCHANGED <<users, txns, budgets, now, held>>

---------------------------------------------------------------------------
(* What clients send *)

\* The user ids clients name in paths and bodies.
UserIds == {1, 2}

\* The token the last login returned, if any.
HeldTokens == IF held = None THEN {} ELSE {held.token}

\* Token t with another user's id for its subject and its signature kept.
Resubjected(t) ==
    {[t EXCEPT !.sub = UuidToString(u)] : u \in {v \in UserIds : UuidToString(v) # t.sub}}

\* Tokens nobody was issued: a held token with its subject or its expiry
\* rewritten and its signature kept, a token signed with a key that is not
\* the server's, and a token signed with the server's key whose subject is
\* no UUID.
ForgedTokens ==
    {[t EXCEPT !.exp = @ + 86400] : t \in HeldTokens}
    \cup (UNION {Resubjected(t) : t \in HeldTokens})
    \cup {Encode([sub |-> UuidToString(1), exp |-> 172800], OtherSecret),
          Encode([sub |-> NotAUuid, exp |-> 172800], JwtSecret)}

\* Headers that never reach verify_jwt.
PlainHeaders ==
    {NoHeader, OpaqueHeader} \cup {TextHeader("Basic ", t) : t \in HeldTokens}

\* The headers of the store specification, and those of the token one.
StoreHeaders ==
    PlainHeaders
    \cup {TextHeader("Bearer ", t) : t \in HeldTokens}
    \cup {TextHeader("Bearer ", t) : t \in UNION {Resubjected(h) : h \in HeldTokens}}

TokenHeaders ==
    PlainHeaders \cup {TextHeader("Bearer ", t) : t \in HeldTokens \cup ForgedTokens}

TransactionInputs ==
    {[amount |-> 30, kind |-> "Expense", category |-> Some("food"),
      date |-> <<2026, 12, 15>>, description |-> Null],
     [amount |-> 70, kind |-> "Income", category |-> Null,
      date |-> <<2026, 12, 15>>, description |-> Some("pay")]}

BudgetInputs ==
    [month : {<<2026, 12, 1>>}, category : {"food"}, amount : {20, 50}]

MonthInputs == {Null, Some(<<2026, 12, 1>>)}

\* Whether the store answers a query: it does, or the query fails.
Available == {TRUE}

\* Registrations: of two users apart, and of every pairing of the names.
TwoUsers ==
    {[username |-> "x", email |-> "x@mail", password |-> "p"],
     [username |-> "y", email |-> "y@mail", password |-> "p"]}

AnyUsers == [username : Names, email : Names, password : Passwords]

\* main.rs: Json<Transaction>, Json<Budget>, Path<Uuid> with Query<BudgetQuery>
MainTransactionReq(header, user_id, t) ==
    [header |-> header, user_id |-> user_id, amount |-> t.amount, kind |-> t.kind,
     category |-> t.category, date |-> t.date, description |-> t.description]

MainBudgetReq(header, user_id, b) ==
    [header |-> header, user_id |-> user_id, month |-> b.month,
     category |-> b.category, amount |-> b.amount]

MainPathReq(header, user_id, month) ==
    [header |-> header, user_id |-> user_id, month |-> month]

\* handlers.rs: Json<AddTransactionRequest>, Json<UpsertBudgetRequest>,
\* Query<BudgetQuery>
TransactionReq(header, t) ==
    [header |-> header, amount |-> t.amount, kind |-> t.kind,
     category |-> t.category, date |-> t.date, description |-> t.description]

BudgetReq(header, b) ==
    [header |-> header, month |-> b.month, category |-> b.category, amount |-> b.amount]

QueryReq(header, month) == [header |-> header, month |-> month]

---------------------------------------------------------------------------
(* The routes, over the inputs a specification gives them *)

Register(registrations, dbs) ==
    \E r \in registrations, salt \in Salts, db \in dbs :
        register_user(r.username, r.email, r.password, salt, db)

Login(identifiers, passwords, dbs) ==
    \E identifier \in identifiers, password \in passwords, db \in dbs :
        user_login(identifier, password, db)

MainAddTransaction(headers, dbs) ==
    \E h \in headers, u \in UserIds, t \in TransactionInputs, db \in dbs :
        main_add_transaction(MainTransactionReq(h, u, t), db)

MainGetTransactions(headers, dbs) ==
    \E h \in headers, u \in UserIds, db \in dbs :
        main_get_transactions(MainPathReq(h, u, Null), db)

MainUpsertBudget(headers, dbs) ==
    \E h \in headers, u \in UserIds, b \in BudgetInputs, db \in dbs :
        main_upsert_budget(MainBudgetReq(h, u, b), db)

MainGetBudgets(headers, dbs) ==
    \E h \in headers, u \in UserIds, m \in MonthInputs, db \in dbs :
        main_get_budgets(MainPathReq(h, u, m), db)

MainGetBudgetProgress(headers, dbs) ==
    \E h \in headers, u \in UserIds, m \in MonthInputs, db \in dbs :
        main_get_budget_progress(MainPathReq(h, u, m), db)

AddTransaction(headers, dbs) ==
    \E h \in headers, t \in TransactionInputs, db \in dbs :
        add_transaction(TransactionReq(h, t), db)

GetTransactions(headers, dbs) ==
    \E h \in headers, db \in dbs :
        get_transactions(QueryReq(h, Null), db)

UpsertBudgetRoute(headers, dbs) ==
    \E h \in headers, b \in BudgetInputs, db \in dbs :
        upsert_budget(BudgetReq(h, b), db)

GetBudgets(headers, dbs) ==
    \E h \in headers, m \in MonthInputs, db \in dbs :
        get_budgets(QueryReq(h, m), db)

GetBudgetProgress(headers, dbs) ==
    \E h \in headers, m \in MonthInputs, db \in dbs :
        get_budget_progress(QueryReq(h, m), db)

---------------------------------------------------------------------------
(* The specifications *)

\* No request has been served yet.
NoExchange ==
    [op |-> "none", req |-> <<>>, db |-> TRUE, at |-> Instants[1],
     gate |-> "n/a", invoked |-> FALSE, err |-> "none", auth |-> 0,
     owner |-> 0, status |-> 0, msg |-> "", body |-> <<>>]

Init ==
    /\ users = <<>>
    /\ txns = <<>>
    /\ budgets = {}
    /\ now = Instants[1]
    /\ held = None
    /\ last = NoExchange

\* Two users and every route against the store, within one reading of the
\* clock and with the store answering.
Next ==
    \/ Register(TwoUsers, Available)
    \/ Login({"x", "y"}, {"p"}, Available)
    \/ MainAddTransaction(StoreHeaders, Available)
    \/ MainGetTransactions(StoreHeaders, Available)
    \/ MainUpsertBudget(StoreHeaders, Available)
    \/ MainGetBudgets(StoreHeaders, Available)
    \/ MainGetBudgetProgress(StoreHeaders, Available)
    \/ AddTransaction(StoreHeaders, Available)
    \/ GetTransactions(StoreHeaders, Available)
    \/ UpsertBudgetRoute(StoreHeaders, Available)
    \/ GetBudgets(StoreHeaders, Available)
    \/ GetBudgetProgress(StoreHeaders, Available)

Spec == Init /\ [][Next]_vars

\* Registration and login over every pairing of names and passwords, with
\* the store answering or failing.
NextLogin ==
    \/ Register(AnyUsers, BOOLEAN)
    \/ Login(Names, Passwords, BOOLEAN)

SpecLogin == Init /\ [][NextLogin]_vars

\* Two users' tokens, presented and forged, as the clock passes their expiry.
NextToken ==
    \/ Register(TwoUsers, Available)
    \/ Login({"x", "y"}, {"p"}, Available)
    \/ Tick
    \/ MainGetBudgets(TokenHeaders, Available)
    \/ GetBudgets(TokenHeaders, Available)

SpecToken == Init /\ [][NextToken]_vars

---------------------------------------------------------------------------
(* A store the server finds already written *)

\* A password_hash column that is no PHC string: PasswordHash::new fails on it.
UnparsableHash == [alg |-> "plain", salt |-> "", digest |-> <<"p", "">>]

\* The users table as found: user x, and user y whose stored hash parses or
\* does not.
StoredUsers ==
    {<<[id |-> 1, username |-> "x", email |-> "x@mail",
        password_hash |-> HashPassword("p", "s1")],
       [id |-> 2, username |-> "y", email |-> "y@mail", password_hash |-> h]>> :
     h \in {HashPassword("p", "s1"), UnparsableHash}}

\* Rows of the transactions table as found: kind is a text column, and a row
\* can hold a string that get_transactions' match does not know.
StoredRow(user_id, kind) ==
    [user_id |-> user_id, amount |-> 30, kind |-> kind, category |-> Some("food"),
     date |-> <<2026, 12, 15>>, description |-> Null]

StoredTxns ==
    {<<>>,
     <<StoredRow(1, "expense")>>,
     <<StoredRow(1, "refund")>>,
     <<StoredRow(1, "expense"), StoredRow(2, "refund")>>}

\* A user who registers with the server running.
LateUsers == {[username |-> "z", email |-> "z@mail", password |-> "p"]}

InitStored ==
    /\ users \in StoredUsers
    /\ txns \in StoredTxns
    /\ budgets = {}
    /\ now = Instants[1]
    /\ held = None
    /\ last = NoExchange

\* Every route over a store as found, the store answering or failing.
NextStored ==
    \/ Register(LateUsers, BOOLEAN)
    \/ Login({"x", "y", "w"}, Passwords, BOOLEAN)
    \/ MainAddTransaction(StoreHeaders, BOOLEAN)
    \/ MainGetTransactions(StoreHeaders, BOOLEAN)
    \/ MainUpsertBudget(StoreHeaders, BOOLEAN)
    \/ MainGetBudgets(StoreHeaders, BOOLEAN)
    \/ MainGetBudgetProgress(StoreHeaders, BOOLEAN)
    \/ AddTransaction(StoreHeaders, BOOLEAN)
    \/ GetTransactions(StoreHeaders, BOOLEAN)
    \/ UpsertBudgetRoute(StoreHeaders, BOOLEAN)
    \/ GetBudgets(StoreHeaders, BOOLEAN)
    \/ GetBudgetProgress(StoreHeaders, BOOLEAN)

SpecStored == InitStored /\ [][NextStored]_vars

---------------------------------------------------------------------------
(* Budget progress over the stores two users can have built *)

MaxRows == 3

\* The users table after x and y registered.
RegisteredUsers ==
    <<[id |-> 1, username |-> "x", email |-> "x@mail",
       password_hash |-> HashPassword("p", "s1")],
      [id |-> 2, username |-> "y", email |-> "y@mail",
       password_hash |-> HashPassword("p", "s1")]>>

\* Rows add_transaction can have written, in the order they were written:
\* around the ends of December 2026, of either kind, with and without a
\* category, of either user.
ProgressRows ==
    <<[user_id |-> 1, amount |-> 30, kind |-> "expense", category |-> Some("food"),
       date |-> <<2026, 12, 1>>, description |-> Null],
      [user_id |-> 1, amount |-> 70, kind |-> "expense", category |-> Some("food"),
       date |-> <<2026, 12, 31>>, description |-> Null],
      [user_id |-> 1, amount |-> 5, kind |-> "expense", category |-> Some("food"),
       date |-> <<2027, 1, 1>>, description |-> Null],
      [user_id |-> 1, amount |-> 7, kind |-> "expense", category |-> Some("food"),
       date |-> <<2026, 11, 30>>, description |-> Null],
      [user_id |-> 1, amount |-> 11, kind |-> "income", category |-> Some("food"),
       date |-> <<2026, 12, 15>>, description |-> Some("pay")],
      [user_id |-> 1, amount |-> 13, kind |-> "expense", category |-> Some("rent"),
       date |-> <<2026, 12, 15>>, description |-> Null],
      [user_id |-> 1, amount |-> 17, kind |-> "expense", category |-> Null,
       date |-> <<2026, 12, 15>>, description |-> Null],
      [user_id |-> 2, amount |-> 19, kind |-> "expense", category |-> Some("food"),
       date |-> <<2026, 12, 15>>, description |-> Null]>>

\* The sequence of the rows of ProgressRows at the indices in I, in order.
RECURSIVE RowsAt(_, _)
RowsAt(I, k) ==
    IF k > Len(ProgressRows) THEN <<>>
    ELSE (IF k \in I THEN <<ProgressRows[k]>> ELSE <<>>) \o RowsAt(I, k + 1)

ProgressTxns ==
    {RowsAt(I, 1) : I \in {J \in SUBSET (1..Len(ProgressRows)) : Cardinality(J) <= MaxRows}}

\* A row upsert_budget can have written.
BudgetRow(user_id, month, category, amount) ==
    [user_id |-> user_id, month |-> month, category |-> category,
     amount |-> amount, updated_at |-> 0]

ProgressBudgets ==
    {{},
     {BudgetRow(1, <<2026, 12, 1>>, "food", 50)},
     {BudgetRow(1, <<2026, 12, 1>>, "food", 50), BudgetRow(1, <<2026, 12, 1>>, "rent", 20)},
     {BudgetRow(1, <<2026, 12, 1>>, "rent", 20), BudgetRow(1, <<2026, 12, 1>>, "food", 200),
      BudgetRow(1, <<2026, 11, 1>>, "food", 40), BudgetRow(2, <<2026, 12, 1>>, "food", 20)},
     {BudgetRow(1, <<2026, 11, 1>>, "food", 40), BudgetRow(2, <<2026, 12, 1>>, "food", 20),
      BudgetRow(1, <<1970, 1, 1>>, "rent", 20)}}

\* ?month= of the progress route: absent, or the first day of a month of 2026.
ProgressMonths == {Null} \cup {Some(<<2026, m, 1>>) : m \in 1..12}

\* The progress routes over these months.
GetBudgetProgressOf(headers, months) ==
    \E h \in headers, m \in months :
        get_budget_progress(QueryReq(h, m), TRUE)

MainGetBudgetProgressOf(headers, months) ==
    \E h \in headers, u \in UserIds, m \in months :
        main_get_budget_progress(MainPathReq(h, u, m), TRUE)

InitProgress ==
    /\ users = RegisteredUsers
    /\ txns \in ProgressTxns
    /\ budgets \in ProgressBudgets
    /\ now = Instants[1]
    /\ held = None
    /\ last = NoExchange

NextProgress ==
    \/ Login({"x", "y"}, {"p"}, Available)
    \/ GetBudgetProgressOf({TextHeader("Bearer ", t) : t \in HeldTokens}, ProgressMonths)
    \/ MainGetBudgetProgressOf({TextHeader("Bearer ", t) : t \in HeldTokens},
                               {Null, Some(<<2026, 12, 1>>)})

SpecProgress == InitProgress /\ [][NextProgress]_vars

---------------------------------------------------------------------------
(* Budget progress asked for a day inside a month *)

\* Budgets upsert_budget can have written with the month it was sent, the
\* first day of a month or any other day.
MidMonthBudgets ==
    {{BudgetRow(1, <<2026, 12, 15>>, "food", 50)},
     {BudgetRow(1, <<2026, 12, 1>>, "food", 200)},
     {BudgetRow(1, <<2026, 12, 15>>, "food", 50), BudgetRow(1, <<2026, 12, 15>>, "rent", 20),
      BudgetRow(1, <<2026, 12, 1>>, "food", 200)},
     {BudgetRow(1, <<2026, 11, 30>>, "food", 40), BudgetRow(2, <<2026, 12, 15>>, "food", 20),
      BudgetRow(1, <<2026, 12, 1>>, "rent", 20)}}

\* ?month= of the progress route: the first, the fifteenth, or the last day
\* of a month.
MidMonths == {Some(<<2026, 12, 1>>), Some(<<2026, 12, 15>>), Some(<<2026, 11, 30>>)}

InitMidMonth ==
    /\ users = RegisteredUsers
    /\ txns \in ProgressTxns
    /\ budgets \in MidMonthBudgets
    /\ now = Instants[1]
    /\ held = None
    /\ last = NoExchange

NextMidMonth ==
    \/ Login({"x", "y"}, {"p"}, Available)
    \/ GetBudgetProgressOf({TextHeader("Bearer ", t) : t \in HeldTokens}, MidMonths)
    \/ MainGetBudgetProgressOf({TextHeader("Bearer ", t) : t \in HeldTokens}, MidMonths)

SpecMidMonth == InitMidMonth /\ [][NextMidMonth]_vars

---------------------------------------------------------------------------
(* Budgets of two users over two categories *)

\* Budgets of one month in either category.
KeyedBudgetInputs ==
    [month : {<<2026, 12, 1>>}, category : {"food", "rent"}, amount : {20, 50}]

\* The upsert routes over these budgets.
UpsertBudgetOf(headers, inputs) ==
    \E h \in headers, b \in inputs :
        upsert_budget(BudgetReq(h, b), TRUE)

MainUpsertBudgetOf(headers, inputs) ==
    \E h \in headers, u \in UserIds, b \in inputs :
        main_upsert_budget(MainBudgetReq(h, u, b), TRUE)

InitBudget ==
    /\ users = RegisteredUsers
    /\ txns = <<>>
    /\ budgets = {}
    /\ now = Instants[1]
    /\ held = None
    /\ last = NoExchange

NextBudget ==
    \/ Login({"x", "y"}, {"p"}, Available)
    \/ UpsertBudgetOf({NoHeader} \cup {TextHeader("Bearer ", t) : t \in HeldTokens},
                      KeyedBudgetInputs)
    \/ MainUpsertBudgetOf({TextHeader("Bearer ", t) : t \in HeldTokens},
                          KeyedBudgetInputs)
    \/ GetBudgets({TextHeader("Bearer ", t) : t \in HeldTokens}, Available)

SpecBudget == InitBudget /\ [][NextBudget]_vars

---------------------------------------------------------------------------
(* The gate across logins, writes and the passing of time *)

\* The tokens the logins of the first instant issue to the registered users.
EarlierTokens == {IssueToken(users[i].id, Instants[1]) : i \in 1..Len(users)}

GateHeaders ==
    {NoHeader}
    \cup {TextHeader("Bearer ", t) : t \in EarlierTokens \cup HeldTokens}
    \cup {TextHeader("Bearer ", AlteredToken) :
            AlteredToken \in {[t EXCEPT !.exp = @ + 86400] : t \in HeldTokens}}

InitGate ==
    /\ users = RegisteredUsers
    /\ txns = <<>>
    /\ budgets = {}
    /\ now = Instants[1]
    /\ held = None
    /\ last = NoExchange

\* Logins that succeed and that fail, budgets written and read, and the clock.
NextGate ==
    \/ Login({"x", "y"}, Passwords, Available)
    \/ Tick
    \/ UpsertBudgetRoute(GateHeaders, Available)
    \/ GetBudgets(GateHeaders, Available)

SpecGate == InitGate /\ [][NextGate]_vars

---------------------------------------------------------------------------
(* Claims *)

MainOps == {"main_add_transaction", "main_get_transactions", "main_upsert_budget",
            "main_get_budgets", "main_get_budget_progress"}

TokenOps == {"add_transaction", "get_transactions", "upsert_budget",
             "get_budgets", "get_budget_progress"}

ProtectedOps == MainOps \cup TokenOps

ReadOps == {"main_get_transactions", "main_get_budgets", "main_get_budget_progress",
            "get_transactions", "get_budgets", "get_budget_progress"}

\* C1: in each of the five protected operations that take a user id in the
\* path or the body, a verified identity that differs from the supplied id
\* ends the request with 401 Unauthorized, no query issued and no body; and
\* whenever any protected operation issues a query, the id bound to it is the
\* verified identity, never a supplied id that differs from it.
C1_MismatchIsUnauthorized ==
    /\ (last.op \in MainOps /\ last.gate = "Verified" /\ last.req.user_id # last.auth)
          => (last.status = 401 /\ last.owner = 0 /\ last.body = <<>>)
    /\ (last.op \in ProtectedOps /\ last.owner # 0) => last.owner = last.auth

\* C1 witness: a write for another user's id was asked with a valid token and
\* refused.
C1_Witness ==
    /\ last.op = "main_add_transaction"
    /\ last.gate = "Verified"
    /\ last.req.user_id # last.auth
    /\ last.status = 401

\* C2: every step that adds or replaces a row of transactions or budgets is a
\* request the gate verified, and the row it writes, like the row it replaces,
\* is owned by the identity the gate verified for that request; no other row
\* changes.
C2_RowsOwnedByVerified ==
    [][/\ Len(txns') >= Len(txns)
       /\ SubSeq(txns', 1, Len(txns)) = txns
       /\ \A k \in (Len(txns) + 1)..Len(txns') :
             last'.gate = "Verified" /\ txns'[k].user_id = last'.auth
       /\ \A b \in (budgets' \ budgets) \cup (budgets \ budgets') :
             last'.gate = "Verified" /\ b.user_id = last'.auth]_vars

\* C2 witness: both users own budget rows, a transaction row exists, and the
\* latest request was a successful upsert whose amount its owner's row holds.
C2_Witness ==
    /\ \E b \in budgets : b.user_id = 1
    /\ \E b \in budgets : b.user_id = 2
    /\ \E k \in 1..Len(txns) : txns[k].user_id \in {1, 2}
    /\ last.op \in {"upsert_budget", "main_upsert_budget"}
    /\ last.status = 201
    /\ \E b \in budgets : b.user_id = last.auth /\ b.amount = last.req.amount

\* The rows of the tables that user_id owns.
OwnTransactions(T, user_id) == SelectSeq(T, LAMBDA r : r.user_id = user_id)
OwnBudgets(B, user_id) == {b \in B : b.user_id = user_id}

\* Tables that agree with T and B on user_id's rows and differ in the others':
\* the others' rows removed, their amounts changed, and their rows re-owned by
\* yet another user.
OtherStores(T, B, user_id) ==
    {<<OwnTransactions(T, user_id), OwnBudgets(B, user_id)>>,
     <<[k \in 1..Len(T) |-> IF T[k].user_id = user_id THEN T[k]
                            ELSE [T[k] EXCEPT !.amount = @ + 1]],
       {IF b.user_id = user_id THEN b ELSE [b EXCEPT !.amount = @ + 1] : b \in B}>>,
     <<[k \in 1..Len(T) |-> IF T[k].user_id = user_id THEN T[k]
                            ELSE [T[k] EXCEPT !.user_id = user_id + 7]],
       {IF b.user_id = user_id THEN b ELSE [b EXCEPT !.user_id = user_id + 7] : b \in B}>>}

\* What a read operation answers user_id over tables T and B.
ReadAnswer(op, T, B, user_id, month, t) ==
    IF op \in {"get_transactions", "main_get_transactions"}
    THEN GetTransactionsAnswer(T, user_id).value
    ELSE IF op \in {"get_budgets", "main_get_budgets"}
    THEN GetBudgetsAnswer(B, user_id, month)
    ELSE GetBudgetProgressAnswer(B, T, user_id, month, t)

\* C3: the body of a successful get_transactions, get_budgets or
\* get_budget_progress response is what the same request answers over any
\* tables that agree with the store on the authenticated user's rows, however
\* the other users' rows differ.
C3_ReadsDependOnOwnRows ==
    (last.op \in ReadOps /\ last.status = 200) =>
        \A other \in OtherStores(txns, budgets, last.auth) :
            last.body = ReadAnswer(last.op, other[1], other[2], last.auth,
                                   last.req.month, last.at)

\* C3 witness: user 1 reads the progress of a food budget while user 2 holds
\* a food expense inside the window.
C3_Witness ==
    /\ last.op = "get_budget_progress"
    /\ last.status = 200
    /\ last.auth = 1
    /\ Len(last.body) = 1
    /\ last.body[1].spent = 0
    /\ \E k \in 1..Len(txns) :
          txns[k].user_id = 2 /\ txns[k].kind = "expense" /\ txns[k].category = Some("food")

\* C4: a protected request without an Authorization header gets 401 with
\* "Missing Authorization header", with verify_jwt not invoked and no query
\* issued.
C4_NoHeaderRejected ==
    (last.op \in ProtectedOps /\ last.req.header = NoHeader) =>
        /\ last.status = 401
        /\ last.msg = "Missing Authorization header"
        /\ last.gate = "NoHeader"
        /\ ~last.invoked
        /\ last.owner = 0

\* C4 witness: a budget upsert without a header, refused while budgets exist.
C4_Witness ==
    /\ last.op = "upsert_budget"
    /\ last.req.header = NoHeader
    /\ last.status = 401
    /\ budgets # {}

\* C5: a protected request whose Authorization header is present but is not
\* "Bearer <token>" gets 401 with "Invalid Authorization format, ...", with
\* verify_jwt not invoked.
C5_MalformedHeaderRejected ==
    (/\ last.op \in ProtectedOps
     /\ last.req.header # NoHeader
     /\ ~(last.req.header.kind = "text" /\ last.req.header.prefix = "Bearer "))
    => (/\ last.status = 401
        /\ last.msg = "Invalid Authorization format, expected: Bearer <token>"
        /\ last.gate = "MalformedHeader"
        /\ ~last.invoked)

\* The verification errors a bearer token can end in.
VerificationErrors == {"InvalidSignature", "ExpiredSignature", "invalid character"}

\* The response a client sees.
Seen(x) == <<x.status, x.msg, x.body>>

\* C6: a request with a bearer token that fails verification gets 401 with
\* "Invalid or expired token" and no body, whichever check failed; and every
\* token that fails at this instant, for whichever reason, gets that same
\* status and message.
C6_UniformRejection ==
    /\ (last.op \in ProtectedOps /\ last.invoked /\ last.gate # "Verified") =>
          /\ last.err \in VerificationErrors
          /\ Seen(last) = <<401, "Invalid or expired token", <<>>>>
    /\ \A t1 \in HeldTokens \cup ForgedTokens, t2 \in HeldTokens \cup ForgedTokens :
          LET g1 == from_request_parts(TextHeader("Bearer ", t1), now)
              g2 == from_request_parts(TextHeader("Bearer ", t2), now)
          IN (~g1.ok /\ ~g2.ok) => (g1.status = g2.status /\ g1.msg = g2.msg)

\* C6 witness: a request was refused for an expired token at an instant at
\* which other tokens fail for a wrong signature and for a subject that is no
\* UUID.
C6_Witness ==
    /\ last.op \in ProtectedOps
    /\ last.err = "ExpiredSignature"
    /\ last.at = now
    /\ \E t \in ForgedTokens :
          from_request_parts(TextHeader("Bearer ", t), now).err = "InvalidSignature"
    /\ \E t \in ForgedTokens :
          from_request_parts(TextHeader("Bearer ", t), now).err = "invalid character"

\* C7: the token a successful login issued at time t for user I has the
\* string form of I as its subject, I being the user_id of the response, and
\* t + 86400 as its expiry; and at every instant before t + 86400 verify_jwt
\* with the server's secret returns (I, t + 86400) for it.
C7_IssuedTokenVerifies ==
    /\ (last.op = "user_login" /\ last.status = 200) =>
          /\ last.body.access_token.sub = UuidToString(last.body.user_id)
          /\ last.body.access_token.exp = last.at + 86400
    /\ held # None =>
          /\ held.token.sub = UuidToString(held.user_id)
          /\ held.token.exp = held.at + 86400
          /\ now < held.at + 86400 =>
                verify_jwt(held.token, JwtSecret, now) =
                    [ok |-> TRUE, user_id |-> held.user_id, exp |-> held.at + 86400]

\* C7 witness: the second user's token, presented after time has passed and
\* before its expiry, was verified as that user.
C7_Witness ==
    /\ held # None
    /\ held.user_id = 2
    /\ now > held.at
    /\ now < held.token.exp
    /\ last.op = "get_budgets"
    /\ last.req.header = TextHeader("Bearer ", held.token)
    /\ last.gate = "Verified"
    /\ last.auth = 2
    /\ last.at = now

\* C8: a request carrying an issued token at or after the token's expiry
\* instant is not admitted by the gate.
C8_RejectedFromExpiryOn ==
    (/\ last.op \in ProtectedOps
     /\ held # None
     /\ last.req.header = TextHeader("Bearer ", held.token)
     /\ last.at >= held.at + 86400)
    => last.gate # "Verified"

\* The rows of users a login with this identifier and password is checked
\* against and passes.
Credentials(identifier, password) ==
    {i \in UsersMatching(identifier) :
        /\ PasswordHashNew(users[i].password_hash).ok
        /\ HashPassword(password, users[i].password_hash.salt) = users[i].password_hash}

\* C9: a login answers 200 with a token only when a stored row matches the
\* identifier and the password hashes to that row's stored hash, and the
\* token is that row's user's; a login whose identifier matches no row, or
\* whose password is that of no matching row, answers 401 with no token.
C9_TokenOnlyAfterVerification ==
    last.op = "user_login" =>
        /\ last.status = 200 =>
              \E i \in Credentials(last.req.identifier, last.req.password) :
                  /\ last.body.user_id = users[i].id
                  /\ last.body.access_token.sub = UuidToString(users[i].id)
        /\ Credentials(last.req.identifier, last.req.password) = {} =>
              (last.status = 401 /\ last.body = <<>>)

\* C9 witness: a login for a registered name with a password that is not the
\* registered one was refused, the store answering.
C9_Witness ==
    /\ last.op = "user_login"
    /\ last.db
    /\ UsersMatching(last.req.identifier) # {}
    /\ Credentials(last.req.identifier, last.req.password) = {}
    /\ last.status = 401
    /\ held = None

\* C10: with the store answering, a login whose identifier is the username or
\* the email of a registered user and whose password is the one that user
\* registered answers 200 with a token for that user's id.
C10_RegisteredLoginSucceeds ==
    (last.op = "user_login" /\ last.db) =>
        \A i \in Credentials(last.req.identifier, last.req.password) :
            /\ last.status = 200
            /\ last.body.user_id = users[i].id

\* The operations that write, which answer 201 Created where the reads
\* answer 200 OK.
WriteOps == ProtectedOps \ ReadOps

UnknownIdentifierAnswer == <<401, "Invalid username/email or password", <<>>>>

\* C12: a login that does not end in a token is answered as a login with an
\* unknown identifier is, whether the stored hash failed to parse or the
\* password did not match.
C12_LoginFailsClosed ==
    (last.op = "user_login" /\ last.status # 200) =>
        Seen(last) = UnknownIdentifierAnswer

\* The operations that query the store.
StoreOps == ProtectedOps \cup {"register_user", "user_login"}

\* C13: a request whose query the store failed is answered with a server
\* error, never 401 and never a success.
C13_StorageFailureIsServerError ==
    (last.op \in StoreOps /\ ~last.db) =>
        (last.status >= 500 /\ last.status <= 599)

\* C14: get_transactions over rows of the caller that hold a kind string
\* other than "income" and "expense" answers with a server error.
C14_UnknownKindIsServerError ==
    (/\ last.op \in {"get_transactions", "main_get_transactions"}
     /\ last.gate = "Verified"
     /\ last.owner # 0
     /\ last.db
     /\ \E k \in 1..Len(txns) :
           txns[k].user_id = last.owner /\ txns[k].kind \notin {"income", "expense"})
    => (last.status >= 500 /\ last.status <= 599)

ProgressOps == {"get_budget_progress", "main_get_budget_progress"}

\* The month a progress request asked for: ?month=, or the month of the clock.
TargetMonth(x) == MonthStart(x.req.month, x.at)

\* A date as the number yyyymmdd, which orders dates as the calendar does.
Ordinal(d) == (d[1] * 10000) + (d[2] * 100) + d[3]

\* The month after each month of the year.
FollowingMonth == <<2, 3, 4, 5, 6, 7, 8, 9, 10, 11, 12, 1>>

\* The first day of the calendar month after the month of date d.
FirstOfFollowingMonth(d) ==
    <<IF d[2] = 12 THEN d[1] + 1 ELSE d[1], FollowingMonth[d[2]], 1>>

\* The sum of the amounts of the rows of txns at the indices in I.
RECURSIVE AmountOver(_)
AmountOver(I) ==
    IF I = {} THEN 0
    ELSE LET k == CHOOSE i \in I : TRUE IN txns[k].amount + AmountOver(I \ {k})

\* What user_id spent in a category within the calendar month that starts at
\* month_start: their expenses of that category dated in the month.
ExpectedSpent(user_id, category, month_start) ==
    AmountOver({k \in 1..Len(txns) :
        /\ txns[k].user_id = user_id
        /\ txns[k].kind = "expense"
        /\ txns[k].category = Some(category)
        /\ Ordinal(month_start) <= Ordinal(txns[k].date)
        /\ Ordinal(txns[k].date) < Ordinal(FirstOfFollowingMonth(month_start))})

\* The budget rows a progress request is about: the caller's, of the target month.
TargetBudgets(x) ==
    {b \in budgets : b.user_id = x.auth /\ b.month = TargetMonth(x)}

\* C15: in a successful progress response, the entry of every budget row of
\* the caller for the target month reports as spent the sum of the caller's
\* expense transactions of the budget's category dated from month_start up to
\* and excluding next_month_start; income, other categories, other dates and
\* other users' rows add nothing.
C15_SpentIsOwnExpensesInWindow ==
    (last.op \in ProgressOps /\ last.status = 200) =>
        \A b \in TargetBudgets(last) :
            \E k \in 1..Len(last.body) :
                /\ last.body[k].category = b.category
                /\ last.body[k].spent =
                       ExpectedSpent(last.auth, b.category, TargetMonth(last))

\* C15 witness: the food budget of December reports 100, the two food
\* expenses of the first and the last day of the month, with a third row in
\* the table that is not counted.
C15_Witness ==
    /\ last.op = "get_budget_progress"
    /\ last.status = 200
    /\ Len(txns) = 3
    /\ \E k \in 1..Len(last.body) :
          last.body[k].category = "food" /\ last.body[k].spent = 100

\* C16: for the month a progress request targets, whichever of the twelve,
\* the end of the window the handler computes is the first day of the
\* following calendar month, January of the next year after December; its
\* month is never 13.
C16_WindowEndIsNextMonth ==
    (last.op \in ProgressOps /\ last.status = 200) =>
        LET month_start == TargetMonth(last)
            next_month_start == NextMonthStart(month_start)
        IN /\ next_month_start = FirstOfFollowingMonth(month_start)
           /\ next_month_start[2] \in 1..12
           /\ month_start = <<2026, 12, 1>> => next_month_start = <<2027, 1, 1>>

\* C16 witness: progress was asked for December 2026 with an expense dated
\* the first of January 2027 in the table, and the entry reports nothing spent.
C16_Witness ==
    /\ last.op = "get_budget_progress"
    /\ last.status = 200
    /\ last.req.month = Some(<<2026, 12, 1>>)
    /\ \E k \in 1..Len(txns) :
          txns[k].date = <<2027, 1, 1>> /\ txns[k].user_id = last.auth
    /\ \E k \in 1..Len(last.body) :
          last.body[k].category = "food" /\ last.body[k].spent = 0

\* C17: a successful progress response has exactly one entry for each budget
\* row of the caller for the target month, with that row's category and
\* amount, and no other entry; a budget no expense matches is there with
\* spent = 0.
C17_OneEntryPerBudget ==
    (last.op \in ProgressOps /\ last.status = 200) =>
        /\ Len(last.body) = Cardinality(TargetBudgets(last))
        /\ \A b \in TargetBudgets(last) :
              /\ Cardinality({k \in 1..Len(last.body) :
                     /\ last.body[k].category = b.category
                     /\ last.body[k].budget_amount = b.amount}) = 1
              /\ ExpectedSpent(last.auth, b.category, TargetMonth(last)) = 0 =>
                    \E k \in 1..Len(last.body) :
                        last.body[k].category = b.category /\ last.body[k].spent = 0

\* C17 witness: two budgets of the month, one with expenses and one with
\* none, both in the response.
C17_Witness ==
    /\ last.op \in ProgressOps
    /\ last.status = 200
    /\ Len(last.body) = 2
    /\ \E k \in 1..2 : last.body[k].spent = 0
    /\ \E k \in 1..2 : last.body[k].spent > 0

\* C18: the entries of a successful progress response are in strictly
\* ascending order of category, so that no category appears twice.
C18_SortedByCategory ==
    (last.op \in ProgressOps /\ last.status = 200) =>
        \A j \in 1..Len(last.body), k \in 1..Len(last.body) :
            j < k => CategoryRank(last.body[j].category)
                        < CategoryRank(last.body[k].category)

\* C18 witness: a response with food before rent, from a table that also
\* holds budgets of another month and of another user.
C18_Witness ==
    /\ last.op \in ProgressOps
    /\ last.status = 200
    /\ Len(last.body) = 2
    /\ last.body[1].category = "food"
    /\ last.body[2].category = "rent"
    /\ Cardinality(budgets) = 4

\* C19: a progress request that reached its query, the store answering, gets
\* a 200 in which every entry has remaining = budget_amount - spent, below
\* zero when spent exceeds the budget.
C19_RemainingIsDifference ==
    (last.op \in ProgressOps /\ last.owner # 0 /\ last.db) =>
        /\ last.status = 200
        /\ \A k \in 1..Len(last.body) :
              /\ last.body[k].remaining =
                     last.body[k].budget_amount - last.body[k].spent
              /\ last.body[k].spent =
                     ExpectedSpent(last.auth, last.body[k].category, TargetMonth(last))
              /\ last.body[k].spent > last.body[k].budget_amount =>
                     last.body[k].remaining < 0

\* C19 witness: 100 spent of a budget of 50, reported with remaining -50.
C19_Witness ==
    /\ last.op = "get_budget_progress"
    /\ last.status = 200
    /\ \E k \in 1..Len(last.body) :
          /\ last.body[k].budget_amount = 50
          /\ last.body[k].spent = 100
          /\ last.body[k].remaining = -50

UpsertOps == {"upsert_budget", "main_upsert_budget"}

\* The budget rows as a Budget shows them: without updated_at.
Budgets(B) ==
    {[user_id |-> b.user_id, month |-> b.month, category |-> b.category,
      amount |-> b.amount] : b \in B}

\* Whether x and y are successful upserts of the same user, month, category
\* and amount.
SameUpsert(x, y) ==
    /\ x.op \in UpsertOps /\ x.status = 201
    /\ y.op \in UpsertOps /\ y.status = 201
    /\ x.auth = y.auth
    /\ x.req.month = y.req.month
    /\ x.req.category = y.req.category
    /\ x.req.amount = y.req.amount

\* C20: after a successful upsert the table holds exactly one row for the
\* caller, month and category, with the amount sent; performing the same
\* upsert again, at this or any later instant, leaves the same budgets; and a
\* step that repeats the upsert before it changes no budget.
C20_UpsertIsIdempotent ==
    /\ []((last.op \in UpsertOps /\ last.status = 201) =>
            LET key == {b \in budgets : /\ b.user_id = last.auth
                                        /\ b.month = last.req.month
                                        /\ b.category = last.req.category}
            IN /\ Cardinality(key) = 1
               /\ \A b \in key : b.amount = last.req.amount
               /\ \A k \in 1..Len(Instants) :
                     LET again == UpsertBudget(budgets, last.auth, last.req.month,
                                      last.req.category, last.req.amount, Instants[k])
                     IN /\ Budgets(again) = Budgets(budgets)
                        /\ Cardinality(again) = Cardinality(budgets))
    /\ [][SameUpsert(last, last') => Budgets(budgets') = Budgets(budgets)]_vars

\* C20 witness: a user upserted a budget of 50 through the route that names
\* the user in the body, with the other user's budget of 20 in the table:
\* each has one row.
C20_Witness ==
    /\ last.op = "main_upsert_budget"
    /\ last.status = 201
    /\ last.req.amount = 50
    /\ Cardinality(budgets) = 2
    /\ \E b \in budgets : b.user_id # last.auth /\ b.amount = 20

\* The key of a budget row, and the rows of a table under a key.
Key(b) == <<b.user_id, b.month, b.category>>
RowsOf(B, k) == {b \in B : Key(b) = k}

\* Whether exchange x is an upsert that succeeded, and the key it wrote.
SuccessfulUpsert(x) == x.op \in UpsertOps /\ x.status = 201
UpsertKey(x) == <<x.auth, x.req.month, x.req.category>>

\* C21: the budgets table never holds two rows of one user, month and
\* category; after a successful upsert the row of its key holds the amount it
\* sent; and a step that is not a successful upsert of a row's key, be it an
\* upsert of another key, a refused upsert or any other request, leaves that
\* row as it is, so that the amount stays that of the latest upsert of the key.
C21_LastWriteWins ==
    /\ [](\A b1 \in budgets, b2 \in budgets : Key(b1) = Key(b2) => b1 = b2)
    /\ [](SuccessfulUpsert(last) =>
            /\ RowsOf(budgets, UpsertKey(last)) # {}
            /\ \A b \in RowsOf(budgets, UpsertKey(last)) : b.amount = last.req.amount)
    /\ [][\A b \in budgets :
             (~SuccessfulUpsert(last') \/ UpsertKey(last') # Key(b)) => b \in budgets']_vars

\* C21 witness: a user set their food budget to 50 with their rent budget at
\* 20 and the other user's food budget at 20 in the table.
C21_Witness ==
    /\ SuccessfulUpsert(last)
    /\ last.req.category = "food"
    /\ last.req.amount = 50
    /\ \E b \in budgets :
          b.user_id = last.auth /\ b.category = "rent" /\ b.amount = 20
    /\ \E b \in budgets :
          b.user_id # last.auth /\ b.category = "food" /\ b.amount = 20

MaxRequests == 3

\* The amounts of up to MaxRequests upserts of one key, in the order the
\* store runs their statements.
AmountOrders == UNION {[1..n -> {20, 50}] : n \in 2..MaxRequests}

\* The table after the statements of those upserts ran in that order.
RECURSIVE AfterUpserts(_, _, _)
AfterUpserts(B, k, amounts) ==
    IF amounts = <<>> THEN B
    ELSE AfterUpserts(UpsertBudget(B, k[1], k[2], k[3], Head(amounts), now),
                      k, Tail(amounts))

\* C22: each upsert is one statement of the store, so concurrent upserts of a
\* key run their statements in some order: from any table reached, whichever
\* the order, the table ends with exactly one row for the key, holding the
\* amount of one of the requests, the rows of the other keys as they were;
\* and in every step no row is lost and a row that is new or changed holds
\* the amount of the upsert that step served.
C22_ConcurrentUpsertsLeaveOneRow ==
    /\ [](\A u \in UserIds, c \in {"food", "rent"}, amounts \in AmountOrders :
            LET k == <<u, <<2026, 12, 1>>, c>>
                B == AfterUpserts(budgets, k, amounts)
            IN /\ Cardinality(RowsOf(B, k)) = 1
               /\ \A b \in RowsOf(B, k) :
                     \E i \in 1..Len(amounts) : b.amount = amounts[i]
               /\ {b \in B : Key(b) # k} = {b \in budgets : Key(b) # k})
    /\ [][/\ \A b \in budgets : RowsOf(budgets', Key(b)) # {}
          /\ \A b \in budgets' \ budgets :
                /\ SuccessfulUpsert(last')
                /\ Key(b) = UpsertKey(last')
                /\ b.amount = last'.req.amount]_vars

\* C22 witness: both users hold both budgets, and the latest upsert lowered
\* one of them to 20 while another row holds 50.
C22_Witness ==
    /\ Cardinality(budgets) = 4
    /\ SuccessfulUpsert(last)
    /\ last.op = "upsert_budget"
    /\ last.req.amount = 20
    /\ \E b \in budgets : b.amount = 50

\* Token t with its signature segment altered.
AlteredSignature(t) == [t EXCEPT !.sig = HS256(OtherSecret, t.sub, t.exp)]

\* The tokens a client can present at this point: those issued and forged,
\* the issued ones with the signature altered, and tokens signed with the
\* server's key whose subject is no UUID, expired and not.
CheckedTokens ==
    HeldTokens \cup ForgedTokens
    \cup {AlteredSignature(t) : t \in HeldTokens}
    \cup {Encode([sub |-> NotAUuid, exp |-> e], JwtSecret) : e \in {0, 172800}}

\* C23: verify_jwt accepts a token only when its signature matches the
\* secret, its expiry has not passed (exp > now) and its subject is a UUID:
\* a token failing any of the three is rejected whatever the other two.
C23_AllThreeChecks ==
    \A t \in CheckedTokens :
        LET v == verify_jwt(t, JwtSecret, now) IN
        /\ t.sig # HS256(JwtSecret, t.sub, t.exp) => ~v.ok
        /\ t.exp <= now => ~v.ok
        /\ t.sub[1] # "uuid" => ~v.ok

\* Whether a header carries a bearer token with the server's signature, an
\* expiry the clock at t has not passed by more than the leeway, and a UUID
\* for its subject: a condition on the header, the secret and t alone.
Admissible(header, t) ==
    /\ header.kind = "text"
    /\ header.prefix = "Bearer "
    /\ header.token.sig = <<JwtSecret, header.token.sub, header.token.exp>>
    /\ header.token.exp + Leeway >= t
    /\ header.token.sub[1] = "uuid"

\* C24: whatever the store holds and whatever requests came before, a
\* protected request passes the gate exactly when its header is admissible
\* at the time of the request, and then as the token's subject; so a token
\* issued to a registered user passes at every instant before its expiry,
\* after later logins, refused logins, writes and rejections alike.
C24_GateIsStateless ==
    /\ last.op \in ProtectedOps =>
          /\ last.gate = "Verified" <=> Admissible(last.req.header, last.at)
          /\ last.gate = "Verified" => last.req.header.token.sub = UuidToString(last.auth)
    /\ \A t \in EarlierTokens \cup HeldTokens :
          now < t.exp => from_request_parts(TextHeader("Bearer ", t), now).ok

\* C24 witness: a user's token of the first instant passed the gate later on,
\* after the other user logged in and with budgets written in between.
C24_Witness ==
    /\ last.op = "get_budgets"
    /\ last.gate = "Verified"
    /\ held # None
    /\ held.user_id # last.auth
    /\ held.at > last.req.header.token.exp - 86400
    /\ last.at > held.at
    /\ budgets # {}

\* Whether exchange x ended at the gate or at the comparison of the supplied
\* id with the token's.
Refused(x) ==
    /\ x.op \in ProtectedOps
    /\ \/ x.gate # "Verified"
       \/ x.op \in MainOps /\ x.req.user_id # x.auth

\* C25: a protected request issues a query only once the gate has verified
\* it; a request the gate refused (no header, malformed header, failed
\* verification) or whose supplied id is not the token's is answered 401 with
\* no query issued, and the step serving it changes neither transactions nor
\* budgets.
C25_GateBeforeStorage ==
    /\ []((last.op \in ProtectedOps /\ last.owner # 0) => last.gate = "Verified")
    /\ [](Refused(last) => (last.owner = 0 /\ last.status = 401))
    /\ [][Refused(last') => (txns' = txns /\ budgets' = budgets)]_vars

\* C25 witness: an upsert with a token whose subject was rewritten was
\* refused at verification, with a transaction and a budget in the tables.
C25_Witness ==
    /\ last.op = "upsert_budget"
    /\ last.gate = "Unauthorized"
    /\ last.owner = 0
    /\ Len(txns) = 1
    /\ budgets # {}

\* The handler an operation of either variant runs.
Handler(op) ==
    IF op \in {"add_transaction", "main_add_transaction"} THEN "add_transaction"
    ELSE IF op \in {"get_transactions", "main_get_transactions"} THEN "get_transactions"
    ELSE IF op \in UpsertOps THEN "upsert_budget"
    ELSE IF op \in {"get_budgets", "main_get_budgets"} THEN "get_budgets"
    ELSE "get_budget_progress"

\* What a request is answered, and the tables it leaves, when the owner is
\* taken from the token alone: the response and effect of the token-only
\* scheme over tables T and B at time t, the store answering.
TokenOnly(handler, req, T, B, t) ==
    LET g == from_request_parts(req.header, t) IN
    IF ~g.ok
    THEN <<g.status, g.msg, <<>>, T, B>>
    ELSE IF handler = "add_transaction"
    THEN <<201, "", <<>>,
           T \o <<[user_id |-> g.user_id, amount |-> req.amount,
                   kind |-> IF req.kind = "Income" THEN "income" ELSE "expense",
                   category |-> req.category, date |-> req.date,
                   description |-> req.description]>>,
           B>>
    ELSE IF handler = "get_transactions"
    THEN <<200, "", GetTransactionsAnswer(T, g.user_id).value, T, B>>
    ELSE IF handler = "upsert_budget"
    THEN <<201, "", <<>>, T,
           UpsertBudget(B, g.user_id, req.month, req.category, req.amount, t)>>
    ELSE IF handler = "get_budgets"
    THEN <<200, "", GetBudgetsAnswer(B, g.user_id, req.month), T, B>>
    ELSE <<200, "", GetBudgetProgressAnswer(B, T, g.user_id, req.month, t), T, B>>

\* Whether exchange x supplied an id other than the one the gate verified.
Mismatched(x) ==
    x.op \in MainOps /\ x.gate = "Verified" /\ x.req.user_id # x.auth

\* C26: every step that serves a protected request of the token-only variant,
\* or one of the variant with the id in the path or body whose supplied id is
\* the verified identity, answers and leaves the tables as the token-only
\* scheme does for that header and payload: the two variants agree on such
\* requests; and a request that passed the gate of the token-only variant is
\* never answered 401 and queries under the subject of its token.
C26_VariantsAgree ==
    /\ [][(last'.op \in ProtectedOps /\ ~Mismatched(last')) =>
             <<last'.status, last'.msg, last'.body, txns', budgets'>> =
                 TokenOnly(Handler(last'.op), last'.req, txns, budgets, now)]_vars
    /\ []((last.op \in TokenOps /\ last.gate = "Verified") =>
            /\ last.status # 401
            /\ last.owner = last.auth
            /\ last.req.header.token.sub = UuidToString(last.owner))

\* C26 witness: a user read their one transaction through the route that
\* names them in the path.
C26_Witness ==
    /\ last.op = "main_get_transactions"
    /\ last.gate = "Verified"
    /\ last.req.user_id = last.auth
    /\ last.status = 200
    /\ Len(last.body) = 1

\* C27: whatever was registered, the lookup of a login, username = identifier
\* OR email = identifier, matches at most one row of users.
C27_IdentifierResolvesToOne ==
    \A identifier \in Names : Cardinality(UsersMatching(identifier)) <= 1

\* The transactions without the expenses that have no category.
Categorised(T) ==
    SelectSeq(T, LAMBDA r : ~(r.kind = "expense" /\ r.category = Null))

\* An expense of user_id, without a category, dated d.
Uncategorised(user_id, d) ==
    [user_id |-> user_id, amount |-> 17, kind |-> "expense", category |-> Null,
     date |-> d, description |-> Null]

\* C28: a successful progress response is what the request is answered over
\* the table without its uncategorised expenses, and over the table with one
\* more uncategorised expense of the caller dated inside the window: such a
\* row adds to the spent of no budget.
C28_UncategorisedNeverCounted ==
    (last.op \in ProgressOps /\ last.status = 200) =>
        /\ last.body = GetBudgetProgressAnswer(budgets, Categorised(txns), last.auth,
                                               last.req.month, last.at)
        /\ last.body = GetBudgetProgressAnswer(budgets,
                            Append(txns, Uncategorised(last.auth, TargetMonth(last))),
                            last.auth, last.req.month, last.at)

\* C28 witness: the caller holds an uncategorised expense of December, and
\* the progress of their December budgets reports nothing spent.
C28_Witness ==
    /\ last.op \in ProgressOps
    /\ last.status = 200
    /\ last.req.month = Some(<<2026, 12, 1>>)
    /\ Len(last.body) = 2
    /\ \A k \in 1..Len(last.body) : last.body[k].spent = 0
    /\ \E k \in 1..Len(txns) :
          /\ txns[k].user_id = last.auth
          /\ txns[k].kind = "expense"
          /\ txns[k].category = Null
          /\ txns[k].date = <<2026, 12, 15>>

\* The budget rows of user_id whose month is the date d.
BudgetsDated(user_id, d) ==
    {b \in budgets : b.user_id = user_id /\ b.month = d}

\* What user_id spent in a category from the date d to the end of d's
\* calendar month.
SpentFrom(user_id, category, d) ==
    AmountOver({k \in 1..Len(txns) :
        /\ txns[k].user_id = user_id
        /\ txns[k].kind = "expense"
        /\ txns[k].category = Some(category)
        /\ Ordinal(d) <= Ordinal(txns[k].date)
        /\ Ordinal(txns[k].date) < Ordinal(FirstOfFollowingMonth(d))})

\* C29: when ?month= is a date d that is not the first day of a month, a
\* successful progress response has one entry for each budget row of the
\* caller whose month is exactly d and no other entry, and each entry's spent
\* is the sum of the caller's expenses of the category dated from d, d
\* included, up to and excluding the first day of the next calendar month;
\* expenses dated earlier in d's month are not in it.
C29_MonthIsTakenVerbatim ==
    (/\ last.op \in ProgressOps
     /\ last.status = 200
     /\ last.req.month # Null
     /\ last.req.month[1][3] # 1) =>
        LET d == last.req.month[1]
        IN /\ Len(last.body) = Cardinality(BudgetsDated(last.auth, d))
           /\ \A b \in BudgetsDated(last.auth, d) :
                 \E k \in 1..Len(last.body) :
                     /\ last.body[k].category = b.category
                     /\ last.body[k].budget_amount = b.amount
                     /\ last.body[k].spent = SpentFrom(last.auth, b.category, d)

\* C29 witness: progress was asked for 2026-12-15 by a user with a food
\* budget of that date and another of 2026-12-01, and food expenses of the
\* first and the last day of December: the response has the two budgets of
\* the fifteenth, and food reports 70, the expense of the last day alone.
C29_Witness ==
    /\ last.op \in ProgressOps
    /\ last.status = 200
    /\ last.req.month = Some(<<2026, 12, 15>>)
    /\ Len(last.body) = 2
    /\ \E k \in 1..2 : last.body[k].category = "food" /\ last.body[k].spent = 70
    /\ \E b \in budgets : b.user_id = last.auth /\ b.month = <<2026, 12, 1>>
    /\ \E k \in 1..Len(txns) :
          /\ txns[k].user_id = last.auth
          /\ txns[k].kind = "expense"
          /\ txns[k].category = Some("food")
          /\ txns[k].date = <<2026, 12, 1>>

====
